---------------------------- MODULE Spec2Model ----------------------------
(***************************************************************************)
(* A model of qbouts::ParameterMap<PARAMETERS...> (include/ParameterMap.h). *)
(*                                                                         *)
(* The object's state is the array of name hashes and the tuple of         *)
(* optionals.  Every public member function is one action; the variable    *)
(* `last` records the call that was made, what it gave back (the value     *)
(* returned or the exception thrown) and the optionals as they were when   *)
(* the call was made, which is what a caller can observe.                  *)
(*                                                                         *)
(* Types are strings ("int", "const string&", ...), values are records     *)
(* [t |-> base type, v |-> printed value].                                 *)
(***************************************************************************)
EXTENDS Integers, Sequences, FiniteSets

VARIABLES m_parameter_name_hashes, m_stored_values, last

vars == <<m_parameter_name_hashes, m_stored_values, last>>

---------------------------------------------------------------------------
(* The instantiation that is modelled.                                     *)

\* sizeof...(PARAMETERS): the number of slots of the instantiated map.
n_parameters == 3

Indices == 0 .. (n_parameters - 1)

\* The parameter pack of the tests, ParameterMap<int, bool, const std::string&>,
\* repeated cyclically when the map has more than three parameters.
TestedPack == <<"int", "bool", "const string&">>

PARAMETERS(i) == TestedPack[(i % Len(TestedPack)) + 1]

\* std::remove_cv_t<std::remove_reference_t<T>>
RemoveCvRef(T) ==
    CASE T = "const string&" -> "string"
      [] T = "const string"  -> "string"
      [] T = "string&"       -> "string"
      [] T = "const int&"    -> "int"
      [] T = "const int"     -> "int"
      [] T = "const bool"    -> "bool"
      [] OTHER               -> T

\* parameter_tuple_t: the value types of the tuple of optionals,
\* std::optional<std::remove_cv_t<std::remove_reference_t<PARAMETERS>>>...
parameter_tuple_t == [INDEX \in Indices |-> RemoveCvRef(PARAMETERS(INDEX))]

\* BaseTypeAt<INDEX>::type: the value_type of the optional at INDEX.
BaseTypeAt(INDEX) == parameter_tuple_t[INDEX]

\* std::is_convertible_v<From, To> on the base types that occur.  "cstr" is a
\* character array (a string literal): it converts to std::string and, by
\* array-to-pointer and boolean conversion, to bool.
is_convertible(From, To) ==
    <<From, To>> \in { <<"int", "int">>, <<"int", "bool">>,
                       <<"bool", "bool">>, <<"bool", "int">>,
                       <<"string", "string">>,
                       <<"cstr", "string">>, <<"cstr", "bool">> }

\* The empty std::optional.
nullopt == [t |-> "nullopt", v |-> ""]

\* The values a caller passes to set.
IntValues    == { [t |-> "int", v |-> "0"], [t |-> "int", v |-> "1"] }
BoolValues   == { [t |-> "bool", v |-> "true"] }
StringValues == { [t |-> "string", v |-> "Marge"] }
CstrValues   == { [t |-> "cstr", v |-> "Homer"] }
Values       == IntValues \cup BoolValues \cup StringValues \cup CstrValues

\* The implicit conversion done by std::optional<Base>::operator=(U&&).
ConvertTo(value, Base) ==
    CASE value.t = Base -> value
      [] value.t = "int" /\ Base = "bool" ->
            [t |-> "bool", v |-> IF value.v = "0" THEN "false" ELSE "true"]
      [] value.t = "bool" /\ Base = "int" ->
            [t |-> "int", v |-> IF value.v = "true" THEN "1" ELSE "0"]
      [] value.t = "cstr" /\ Base = "string" -> [t |-> "string", v |-> value.v]
      [] value.t = "cstr" /\ Base = "bool" -> [t |-> "bool", v |-> "true"]
      [] OTHER -> nullopt

\* The names given to the constructor: "Param<i>" as in the parameterised
\* test suite.
NameTable == <<"Param0", "Param1", "Param2", "Param3", "Param4", "Param5">>

ParamName(i) == NameTable[i + 1]

\* std::hash<std::string> / std::hash<std::string_view>: a function of the
\* characters alone, equal for both.  The standard leaves the values open;
\* here each "Param<i>" hashes to its own value, "Alias0" is a string that
\* collides with "Param0", and "not_a_param" hashes to a value of its own.
hash_of(s) ==
    CASE s = "Alias0"      -> 1
      [] s = "not_a_param" -> 0
      [] OTHER             -> CHOOSE k \in 1 .. Len(NameTable) : NameTable[k] = s

\* The names callers look up.
LookupNames == { ParamName(i) : i \in Indices } \cup { "Alias0", "not_a_param" }

hash_values == [s \in LookupNames |-> hash_of(s)]

std_hash(s) == hash_values[s]

\* The run-time indices callers pass: the valid ones and N, one too high.
LookupIndices == 0 .. n_parameters

\* The T of get<T>.
GetTypes == { "const int&", "bool", "string" }

\* Constructor arguments: slot i is named "Param<i>", except that one slot
\* may be given the name of slot 0 again (names need not be distinct).
NameLists == { [i \in Indices |-> IF i = dup THEN ParamName(0) ELSE ParamName(i)] :
                  dup \in Indices }

---------------------------------------------------------------------------
(* Private members.                                                        *)

\* Mutant: the bound is checked with > instead of >=.
throw_if_index_out_of_range_off_by_one(index) == index > n_parameters

\* throw_if_index_out_of_range: TRUE when std::out_of_range is thrown.
throw_if_index_out_of_range(index) == index >= n_parameters

\* is_set<INDEX>() : std::get<INDEX>(m_stored_values).has_value()
is_set_INDEX(stored, INDEX) == stored[INDEX] # nullopt

\* Mutant: the presence check is left out.
throw_if_no_value_stored_never(stored, INDEX) == FALSE

\* throw_if_no_value_stored_for_index<INDEX>: TRUE when std::runtime_error
\* is thrown.
throw_if_no_value_stored_for_index(stored, INDEX) == ~is_set_INDEX(stored, INDEX)

\* Mutant: is_set(name) filters the slots like get<bool>(name).
TruePredicate_as_bool == { i \in Indices : BaseTypeAt(i) = "bool" }

\* The compile-time predicates, as the set of indices they accept.
TruePredicate == { i \in Indices : TRUE }

\* Mutant: a write needs the exact type, as a read does.
IsSettableFrom_same_type(TYPE) ==
    { index \in Indices : RemoveCvRef(TYPE) = BaseTypeAt(index) }

IsSettableFrom(TYPE) ==
    { index \in Indices : is_convertible(RemoveCvRef(TYPE), BaseTypeAt(index)) }

\* Mutant: a read accepts any convertible type, as a write does.
IsGettableAs_convertible(TYPE) ==
    { index \in Indices : is_convertible(BaseTypeAt(index), RemoveCvRef(TYPE)) }

IsGettableAs(TYPE) ==
    { index \in Indices : RemoveCvRef(TYPE) = BaseTypeAt(index) }

\* Mutant: the name is not compared at all.
ensure_name_matches_ignores_name(hashes, name) == { i \in Indices : TRUE }

\* Mutant: besides the hashes the strings are compared, so only a name
\* that was given to the constructor can match.
ensure_name_matches_compares_strings(hashes, name) ==
    { i \in Indices : hashes[i] = std_hash(name)
                       /\ \E k \in 1 .. Len(NameTable) : NameTable[k] = name }

\* The run-time predicate returned by ensure_name_matches(name), as the set
\* of indices it accepts.
ensure_name_matches(hashes, name) ==
    { i \in Indices : hashes[i] = std_hash(name) }

\* The run-time predicate [&](auto i) { return i == index; }.
index_equals(index) == { i \in Indices : i = index }

\* `found` before any index matched.
NotFound == -1

\* Mutant: `found` is not tested, so the last matching index wins.
RECURSIVE static_for_last(_, _, _, _, _)
static_for_last(First, Last, found, ct_predicate, runtime_predicate) ==
    IF First < Last
    THEN static_for_last(First + 1, Last,
             IF First \in ct_predicate /\ First \in runtime_predicate
             THEN First ELSE found,
             ct_predicate, runtime_predicate)
    ELSE found

\* pass_first_index_matching_predicate_to: static_for<0, n_parameters> over
\* the indices in order; the first index that passes the compile-time and
\* the run-time predicate is the one func is called with.  NotFound stands
\* for the std::invalid_argument thrown after the loop.
RECURSIVE static_for_first(_, _, _, _, _)
static_for_first(First, Last, found, ct_predicate, runtime_predicate) ==
    IF First < Last
    THEN static_for_first(First + 1, Last,
             IF First \in ct_predicate /\ found = NotFound /\ First \in runtime_predicate
             THEN First ELSE found,
             ct_predicate, runtime_predicate)
    ELSE found

pass_first_index_matching_predicate_to(ct_predicate, runtime_predicate) ==
    static_for_first(0, n_parameters, NotFound, ct_predicate, runtime_predicate)

---------------------------------------------------------------------------
(* What a call gives back.                                                 *)

\* Mutant: the first element is value-initialised instead of empty.
constructed_values_value_initialised ==
    [i \in Indices |-> IF i = 0 THEN [t |-> BaseTypeAt(0), v |-> "0"] ELSE nullopt]

\* The tuple of optionals as the constructor leaves it: every one empty.
constructed_values == [i \in Indices |-> nullopt]

\* No call made yet.
NoCall == [op |-> "none", mode |-> "none", name |-> "", index |-> NotFound,
           type |-> "", value |-> nullopt, outcome |-> "ok", target |-> NotFound,
           result |-> nullopt, function |-> "", invocations |-> <<>>,
           checked |-> 0, before |-> [i \in Indices |-> nullopt]]

\* A call of member function op, addressing its slot by mode, made now.
Call(op, mode) == [NoCall EXCEPT !.op = op, !.mode = mode, !.before = m_stored_values]

Bool(b) == [t |-> "bool", v |-> IF b THEN "true" ELSE "false"]

---------------------------------------------------------------------------
(* set                                                                     *)

\* Mutant: the value lands in the slot after INDEX.
set_INDEX_next_slot(stored, INDEX, value) ==
    [stored EXCEPT ![(INDEX + 1) % n_parameters] = ConvertTo(value, BaseTypeAt(INDEX))]

\* Mutant: an occupied slot keeps its value (emplace-if-empty).
set_INDEX_keeps_old(stored, INDEX, value) ==
    IF stored[INDEX] # nullopt
    THEN stored
    ELSE [stored EXCEPT ![INDEX] = ConvertTo(value, BaseTypeAt(INDEX))]

\* Mutant: the whole tuple is rebuilt around the new value.
set_INDEX_resets_others(stored, INDEX, value) ==
    [i \in Indices |-> IF i = INDEX THEN ConvertTo(value, BaseTypeAt(INDEX))
                                     ELSE nullopt]

\* Mutant: storing a value invalidates the slots after it.
set_INDEX_resets_later(stored, INDEX, value) ==
    [i \in Indices |-> IF i = INDEX THEN ConvertTo(value, BaseTypeAt(INDEX))
                       ELSE IF i > INDEX THEN nullopt ELSE stored[i]]

\* set<INDEX>(value): std::get<INDEX>(m_stored_values) = std::forward<T>(value)
set_INDEX(stored, INDEX, value) ==
    [stored EXCEPT ![INDEX] = ConvertTo(value, BaseTypeAt(INDEX))]

\* set(name, value): the slot it resolves to (NotFound: std::invalid_argument).
set_name_target(hashes, name, value) ==
    pass_first_index_matching_predicate_to(IsSettableFrom(value.t),
                                           ensure_name_matches(hashes, name))

\* set(index, value): "out_of_range", or the slot it resolves to.
set_index_target(index, value) ==
    pass_first_index_matching_predicate_to(IsSettableFrom(value.t), index_equals(index))

\* Mutant: the value is stored in the first slot of a fitting type before
\* the name is compared, and the failed comparison then throws.
SetByName_writes_before_throw(name, value) ==
    LET i == set_name_target(m_parameter_name_hashes, name, value)
        first == pass_first_index_matching_predicate_to(IsSettableFrom(value.t),
                                                        Indices)
        call == [Call("set", "name") EXCEPT !.name = name, !.value = value,
                                            !.type = value.t]
    IN  /\ IF i = NotFound
           THEN /\ last' = [call EXCEPT !.outcome = "invalid_argument"]
                /\ m_stored_values' =
                      IF first = NotFound THEN m_stored_values
                      ELSE [m_stored_values EXCEPT
                               ![first] = ConvertTo(value, BaseTypeAt(first))]
           ELSE /\ m_stored_values' = [m_stored_values EXCEPT
                                          ![i] = ConvertTo(value, BaseTypeAt(i))]
                /\ last' = [call EXCEPT !.target = i]
        /\ UNCHANGED m_parameter_name_hashes

SetByName(name, value) ==
    LET i == set_name_target(m_parameter_name_hashes, name, value)
        call == [Call("set", "name") EXCEPT !.name = name, !.value = value,
                                            !.type = value.t]
    IN  /\ IF i = NotFound
           THEN /\ last' = [call EXCEPT !.outcome = "invalid_argument"]
                /\ UNCHANGED m_stored_values
           ELSE /\ m_stored_values' = set_INDEX(m_stored_values, i, value)
                /\ last' = [call EXCEPT !.target = i]
        /\ UNCHANGED m_parameter_name_hashes

SetByIndex(index, value) ==
    LET i == set_index_target(index, value)
        call == [Call("set", "index") EXCEPT !.index = index, !.value = value,
                                             !.type = value.t]
    IN  /\ IF throw_if_index_out_of_range(index)
           THEN /\ last' = [call EXCEPT !.outcome = "out_of_range"]
                /\ UNCHANGED m_stored_values
           ELSE IF i = NotFound
           THEN /\ last' = [call EXCEPT !.outcome = "invalid_argument"]
                /\ UNCHANGED m_stored_values
           ELSE /\ m_stored_values' = set_INDEX(m_stored_values, i, value)
                /\ last' = [call EXCEPT !.target = i]
        /\ UNCHANGED m_parameter_name_hashes

\* set<INDEX>(value) compiles only when INDEX is a slot and the optional at
\* INDEX is assignable from T.
SetByCompileTimeIndex(INDEX, value) ==
    /\ INDEX \in Indices
    /\ is_convertible(value.t, BaseTypeAt(INDEX))
    /\ m_stored_values' = set_INDEX(m_stored_values, INDEX, value)
    /\ last' = [Call("set", "INDEX") EXCEPT !.index = INDEX, !.value = value,
                                            !.type = value.t, !.target = INDEX]
    /\ UNCHANGED m_parameter_name_hashes

---------------------------------------------------------------------------
(* get                                                                     *)

\* What get gives back once the slot INDEX is resolved: the lambda's
\* throw_if_no_value_stored_for_index, then ret->value().
get_resolved(stored, INDEX) ==
    IF INDEX = NotFound
    THEN [outcome |-> "invalid_argument", target |-> NotFound, result |-> nullopt]
    ELSE IF throw_if_no_value_stored_for_index(stored, INDEX)
    THEN [outcome |-> "runtime_error", target |-> INDEX, result |-> nullopt]
    ELSE [outcome |-> "ok", target |-> INDEX, result |-> stored[INDEX]]

\* get<T>(name)
get_name(hashes, stored, T, name) ==
    get_resolved(stored,
        pass_first_index_matching_predicate_to(IsGettableAs(T),
                                               ensure_name_matches(hashes, name)))

\* get<T>(index)
get_index(stored, T, index) ==
    IF throw_if_index_out_of_range(index)
    THEN [outcome |-> "out_of_range", target |-> NotFound, result |-> nullopt]
    ELSE get_resolved(stored,
            pass_first_index_matching_predicate_to(IsGettableAs(T), index_equals(index)))

\* get<INDEX>()
get_INDEX(stored, INDEX) ==
    IF throw_if_no_value_stored_for_index(stored, INDEX)
    THEN [outcome |-> "runtime_error", target |-> INDEX, result |-> nullopt]
    ELSE [outcome |-> "ok", target |-> INDEX, result |-> stored[INDEX]]

Returned(call, r) ==
    [call EXCEPT !.outcome = r.outcome, !.target = r.target, !.result = r.result]

GetByName(T, name) ==
    /\ last' = Returned([Call("get", "name") EXCEPT !.name = name, !.type = T],
                        get_name(m_parameter_name_hashes, m_stored_values, T, name))
    /\ UNCHANGED <<m_parameter_name_hashes, m_stored_values>>

GetByIndex(T, index) ==
    /\ last' = Returned([Call("get", "index") EXCEPT !.index = index, !.type = T],
                        get_index(m_stored_values, T, index))
    /\ UNCHANGED <<m_parameter_name_hashes, m_stored_values>>

\* get<INDEX>() compiles only when INDEX < sizeof...(PARAMETERS).
GetByCompileTimeIndex(INDEX) ==
    /\ INDEX < n_parameters
    /\ last' = Returned([Call("get", "INDEX") EXCEPT !.index = INDEX,
                                                      !.type = BaseTypeAt(INDEX)],
                        get_INDEX(m_stored_values, INDEX))
    /\ UNCHANGED <<m_parameter_name_hashes, m_stored_values>>

---------------------------------------------------------------------------
(* is_set                                                                  *)

\* What is_set(name) / is_set(index) gives back once the slot is resolved.
is_set_resolved(stored, INDEX) ==
    IF INDEX = NotFound
    THEN [outcome |-> "invalid_argument", target |-> NotFound, result |-> nullopt]
    ELSE [outcome |-> "ok", target |-> INDEX, result |-> Bool(is_set_INDEX(stored, INDEX))]

\* is_set(name)
is_set_name(hashes, stored, name) ==
    is_set_resolved(stored,
        pass_first_index_matching_predicate_to(TruePredicate,
                                               ensure_name_matches(hashes, name)))

\* is_set(index)
is_set_index(stored, index) ==
    is_set_resolved(stored,
        pass_first_index_matching_predicate_to(TruePredicate, index_equals(index)))

IsSetByName(name) ==
    /\ last' = Returned([Call("is_set", "name") EXCEPT !.name = name],
                        is_set_name(m_parameter_name_hashes, m_stored_values, name))
    /\ UNCHANGED <<m_parameter_name_hashes, m_stored_values>>

IsSetByIndex(index) ==
    /\ last' = Returned([Call("is_set", "index") EXCEPT !.index = index],
                        is_set_index(m_stored_values, index))
    /\ UNCHANGED <<m_parameter_name_hashes, m_stored_values>>

\* is_set<INDEX>() compiles only when INDEX < sizeof...(PARAMETERS).
IsSetByCompileTimeIndex(INDEX) ==
    /\ INDEX < n_parameters
    /\ last' = [Call("is_set", "INDEX") EXCEPT
                   !.index = INDEX, !.target = INDEX,
                   !.result = Bool(is_set_INDEX(m_stored_values, INDEX))]
    /\ UNCHANGED <<m_parameter_name_hashes, m_stored_values>>

---------------------------------------------------------------------------
(* clear                                                                   *)

\* static_for<First, Last> over [&](auto i) { std::get<i.value>(...).reset(); }
RECURSIVE static_for_reset(_, _, _)
static_for_reset(First, Last, stored) ==
    IF First < Last
    THEN static_for_reset(First + 1, Last, [stored EXCEPT ![First] = nullopt])
    ELSE stored

\* Mutant: the loop starts at 1.
clear_from_one(stored) == static_for_reset(1, n_parameters, stored)

\* clear()
clear(stored) == static_for_reset(0, n_parameters, stored)

Clear ==
    /\ m_stored_values' = clear(m_stored_values)
    /\ last' = Call("clear", "none")
    /\ UNCHANGED m_parameter_name_hashes

---------------------------------------------------------------------------
(* submit                                                                  *)

\* The functions callers submit to: testfunc of the tests (returns 7), a
\* function whose result is its first argument, and a function that throws.
Functions == { "testfunc", "first_argument", "thrower" }

\* std::invoke(f, args...): what the supplied function does with its arguments.
invoke(function, args) ==
    CASE function = "testfunc" ->
            [outcome |-> "ok", result |-> [t |-> "int", v |-> "7"]]
      [] function = "first_argument" ->
            [outcome |-> "ok", result |-> args[1]]
      [] OTHER ->
            [outcome |-> "callee_error", result |-> nullopt]

\* Mutant: the pack is expanded in reverse order.
apply_optionals_args_reversed(stored) ==
    [I \in 1 .. n_parameters |-> stored[n_parameters - I]]

\* detail::apply_optionals: std::invoke(f, *std::get<I>(t)...) for I = 0 .. N-1.
apply_optionals_args(stored) == [I \in 1 .. n_parameters |-> stored[I - 1]]

\* The occupancy loop of submit: static_for<First, Last> over
\* if (!is_set<i.value>()) throw.  Gives the first index without a value,
\* or Last when the loop runs to its end.
RECURSIVE static_for_check(_, _, _)
static_for_check(First, Last, stored) ==
    IF First < Last
    THEN IF ~is_set_INDEX(stored, First)
         THEN First
         ELSE static_for_check(First + 1, Last, stored)
    ELSE Last

\* Mutant: the function is invoked without the occupancy loop.
submit_without_check(stored, function) ==
    LET args == [I \in 1 .. n_parameters |-> stored[I - 1]]
        r    == invoke(function, args)
    IN  [outcome |-> r.outcome, result |-> r.result,
         invocations |-> <<args>>, checked |-> 0]

\* Mutant: a failure of the function is caught and reported as the
\* missing-value error of submit.
submit_translates_failure(stored, function) ==
    LET missing == static_for_check(0, n_parameters, stored)
        args    == [I \in 1 .. n_parameters |-> stored[I - 1]]
        r       == invoke(function, args)
    IN  IF missing < n_parameters \/ r.outcome # "ok"
        THEN [outcome |-> "runtime_error", result |-> nullopt,
              invocations |-> IF missing < n_parameters THEN <<>> ELSE <<args>>,
              checked |-> IF missing < n_parameters THEN missing + 1
                          ELSE n_parameters]
        ELSE [outcome |-> r.outcome, result |-> r.result,
              invocations |-> <<args>>, checked |-> n_parameters]

\* submit(function): what the caller gets back, the argument lists the
\* function was invoked with, and how many slots the loop looked at.
submit(stored, function) ==
    LET missing == static_for_check(0, n_parameters, stored)
        args    == apply_optionals_args(stored)
        r       == invoke(function, args)
    IN  IF missing < n_parameters
        THEN [outcome |-> "runtime_error", result |-> nullopt,
              invocations |-> <<>>, checked |-> missing + 1]
        ELSE [outcome |-> r.outcome, result |-> r.result,
              invocations |-> <<args>>, checked |-> n_parameters]

\* Mutant: the stored values are moved into the call.
submit_moves_values(stored) == [i \in Indices |-> nullopt]

\* submit is a const member function: m_stored_values is only read.
submit_stored_values(stored) == stored

Submit(function) ==
    LET r == submit(m_stored_values, function)
    IN  /\ last' = [Call("submit", "none") EXCEPT
                       !.function = function, !.outcome = r.outcome,
                       !.result = r.result, !.invocations = r.invocations,
                       !.checked = r.checked]
        /\ m_stored_values' = submit_stored_values(m_stored_values)
        /\ UNCHANGED m_parameter_name_hashes

---------------------------------------------------------------------------
(* The constructor, and the calls a client makes in any order.             *)

\* ParameterMap(names...): the hashes of the names; every optional empty.
Init ==
    /\ \E names \in NameLists :
          m_parameter_name_hashes = [i \in Indices |-> std_hash(names[i])]
    /\ m_stored_values = constructed_values
    /\ last = NoCall

Next ==
    \/ \E name \in LookupNames, value \in Values : SetByName(name, value)
    \/ \E index \in LookupIndices, value \in Values : SetByIndex(index, value)
    \/ \E INDEX \in Indices, value \in Values : SetByCompileTimeIndex(INDEX, value)
    \/ \E T \in GetTypes, name \in LookupNames : GetByName(T, name)
    \/ \E T \in GetTypes, index \in LookupIndices : GetByIndex(T, index)
    \/ \E INDEX \in Indices : GetByCompileTimeIndex(INDEX)
    \/ \E name \in LookupNames : IsSetByName(name)
    \/ \E index \in LookupIndices : IsSetByIndex(index)
    \/ \E INDEX \in Indices : IsSetByCompileTimeIndex(INDEX)
    \/ Clear
    \/ \E function \in Functions : Submit(function)

Spec == Init /\ [][Next]_vars

---------------------------------------------------------------------------
(* Properties.                                                             *)

\* The slot a by-name is_set / get<T> resolves the name to.
IsSetNameTarget(name) ==
    is_set_name(m_parameter_name_hashes, m_stored_values, name).target

GetNameTarget(T, name) ==
    get_name(m_parameter_name_hashes, m_stored_values, T, name).target

AllSet(stored) == \A i \in Indices : stored[i] # nullopt

\* C1: after a successful set that addresses slot i with value v (by name,
\* by run-time index or by compile-time index), is_set of slot i is true and
\* get of slot i with the slot's declared type returns v, whether slot i is
\* addressed by a name that resolves to it, by its run-time index or by its
\* compile-time index.  A value of the slot's declared type comes back
\* exactly; a value of another, convertible type comes back converted.
C1_SetThenIsSetAndGet ==
    (last.op = "set" /\ last.outcome = "ok") =>
        LET i == last.target
            v == IF last.value.t = BaseTypeAt(i)
                 THEN last.value
                 ELSE ConvertTo(last.value, BaseTypeAt(i))
            got == [outcome |-> "ok", target |-> i, result |-> v]
        IN  /\ i \in Indices
            /\ last.mode = "name" => m_parameter_name_hashes[i] = std_hash(last.name)
            /\ last.mode # "name" => i = last.index
            /\ is_set_INDEX(m_stored_values, i)
            /\ is_set_index(m_stored_values, i).outcome = "ok"
            /\ is_set_index(m_stored_values, i).result = Bool(TRUE)
            /\ \A name \in LookupNames :
                  IsSetNameTarget(name) = i =>
                     is_set_name(m_parameter_name_hashes, m_stored_values, name).result
                        = Bool(TRUE)
            /\ get_INDEX(m_stored_values, i) = got
            /\ get_index(m_stored_values, PARAMETERS(i), i) = got
            /\ \A name \in LookupNames :
                  GetNameTarget(PARAMETERS(i), name) = i =>
                     get_name(m_parameter_name_hashes, m_stored_values,
                              PARAMETERS(i), name) = got

\* A set by name has stored a bool in slot 1, and the same name reads it back.
C1_Witness ==
    /\ last.op = "set" /\ last.mode = "name" /\ last.outcome = "ok"
    /\ last.target = 1 /\ last.value.t = "bool"
    /\ IsSetNameTarget(last.name) = 1
    /\ GetNameTarget("bool", last.name) = 1

\* C2: submit on a map with at least one empty slot fails with
\* std::runtime_error and the function is not invoked: the occupancy loop
\* ends, at the first empty slot, before any value is read or passed on.
C2_SubmitWithEmptySlotThrows ==
    (last.op = "submit" /\ ~AllSet(last.before)) =>
        /\ last.outcome = "runtime_error"
        /\ last.invocations = <<>>
        /\ last.result = nullopt
        /\ last.checked \in 1 .. n_parameters
        /\ last.before[last.checked - 1] = nullopt
        /\ \A i \in 0 .. (last.checked - 2) : last.before[i] # nullopt

\* submit was called on a partly populated map.
C2_Witness ==
    /\ last.op = "submit" /\ last.outcome = "runtime_error"
    /\ \E i \in Indices : last.before[i] # nullopt
    /\ \E i \in Indices : last.before[i] = nullopt

\* C3: submit on a fully populated map invokes the function exactly once,
\* with the stored value of slot 0 .. N-1 as argument 0 .. N-1, and gives the
\* function's result back unchanged.
C3_SubmitCallsOnceInOrder ==
    (last.op = "submit" /\ AllSet(last.before)) =>
        /\ Len(last.invocations) = 1
        /\ \A i \in Indices : last.invocations[1][i + 1] = last.before[i]
        /\ DOMAIN last.invocations[1] = 1 .. n_parameters
        /\ last.checked = n_parameters
        /\ last.function = "testfunc" =>
              last.outcome = "ok" /\ last.result = [t |-> "int", v |-> "7"]
        /\ last.function = "first_argument" =>
              last.outcome = "ok" /\ last.result = last.before[0]

\* A function whose result is its first argument was submitted to on a fully
\* populated map.
C3_Witness ==
    /\ last.op = "submit" /\ last.function = "first_argument"
    /\ AllSet(last.before) /\ last.outcome = "ok"
    /\ last.result = [t |-> "int", v |-> "1"]

\* C4: submit never changes the map, whether it succeeds or fails; so a
\* second submit right after it passes the same arguments, and a submit
\* after a set passes the value that was set.
C4_SubmitLeavesMapUnchanged ==
    /\ last.op = "submit" =>
          /\ m_stored_values = last.before
          /\ \A function \in Functions :
                submit(m_stored_values, function).invocations = last.invocations
    /\ (last.op = "set" /\ last.outcome = "ok" /\ AllSet(m_stored_values)) =>
          \A function \in Functions :
             LET r == submit(m_stored_values, function)
             IN  /\ Len(r.invocations) = 1
                 /\ r.invocations[1][last.target + 1]
                       = ConvertTo(last.value, BaseTypeAt(last.target))

\* A submit that succeeded: the map is still fully populated.
C4_Witness ==
    /\ last.op = "submit" /\ last.function = "testfunc" /\ last.outcome = "ok"
    /\ AllSet(m_stored_values)

\* C5: set on an occupied slot succeeds and replaces the value: the slot then
\* holds the new value (converted to the slot's type) and every get of the
\* slot returns it.  A set fails only for an index that is out of range or
\* when no slot matches the name or index and the value's type, never
\* because of what the slots hold.
C5_SetOverwrites ==
    /\ (last.op = "set" /\ last.outcome = "ok"
           /\ last.before[last.target] # nullopt) =>
          LET i == last.target
              v2 == ConvertTo(last.value, BaseTypeAt(i))
          IN  /\ m_stored_values[i] = v2
              /\ get_INDEX(m_stored_values, i).result = v2
              /\ get_index(m_stored_values, PARAMETERS(i), i).result = v2
              /\ \A name \in LookupNames :
                    GetNameTarget(PARAMETERS(i), name) = i =>
                       get_name(m_parameter_name_hashes, m_stored_values,
                                PARAMETERS(i), name).result = v2
    /\ (last.op = "set" /\ last.outcome # "ok") =>
          /\ m_stored_values = last.before
          /\ last.mode # "INDEX"
          /\ last.mode = "index" =>
                \/ last.outcome = "out_of_range" /\ last.index >= n_parameters
                \/ /\ last.outcome = "invalid_argument"
                   /\ last.index \in Indices
                   /\ ~is_convertible(last.value.t, BaseTypeAt(last.index))
          /\ last.mode = "name" =>
                /\ last.outcome = "invalid_argument"
                /\ ~ \E i \in Indices :
                        /\ m_parameter_name_hashes[i] = std_hash(last.name)
                        /\ is_convertible(last.value.t, BaseTypeAt(i))

\* A set replaced a different value that the slot held.
C5_Witness ==
    /\ last.op = "set" /\ last.outcome = "ok"
    /\ last.before[last.target] # nullopt
    /\ last.before[last.target] # m_stored_values[last.target]

\* C6: clear() empties every slot whatever the slots held, never fails, and
\* a second clear() changes nothing; after it is_set is false for every slot
\* in all three addressing modes.
C6_ClearEmptiesAll ==
    /\ last.op = "clear" =>
          /\ last.outcome = "ok"
          /\ \A i \in Indices :
                /\ m_stored_values[i] = nullopt
                /\ ~is_set_INDEX(m_stored_values, i)
                /\ is_set_index(m_stored_values, i).outcome = "ok"
                /\ is_set_index(m_stored_values, i).result = Bool(FALSE)
          /\ \A name \in LookupNames :
                LET r == is_set_name(m_parameter_name_hashes, m_stored_values, name)
                IN  /\ (\E i \in Indices : m_parameter_name_hashes[i] = std_hash(name))
                          => r.outcome = "ok"
                    /\ r.outcome = "ok" => r.result = Bool(FALSE)
          /\ clear(m_stored_values) = m_stored_values
    /\ clear(clear(m_stored_values)) = clear(m_stored_values)

\* clear() was called on a fully populated map.
C6_Witness == last.op = "clear" /\ AllSet(last.before)

\* C7: in a freshly constructed map is_set is false for every slot, by name,
\* by run-time index and by compile-time index.
C7_FreshMapNothingSet ==
    last.op = "none" =>
        /\ \A i \in Indices :
              /\ ~is_set_INDEX(m_stored_values, i)
              /\ is_set_index(m_stored_values, i).outcome = "ok"
              /\ is_set_index(m_stored_values, i).result = Bool(FALSE)
        /\ \A name \in LookupNames :
              (\E i \in Indices : m_parameter_name_hashes[i] = std_hash(name)) =>
                 LET r == is_set_name(m_parameter_name_hashes, m_stored_values, name)
                 IN  r.outcome = "ok" /\ r.result = Bool(FALSE)

\* The map as constructed with N distinct names.
C7_Witness ==
    /\ last.op = "none"
    /\ \A i \in Indices : IsSetNameTarget(ParamName(i)) = i

\* C8: get of an empty slot, addressed by a name that resolves to it, by its
\* run-time index or by its compile-time index, with the slot's declared
\* type, fails with std::runtime_error; a slot emptied by clear() is as
\* empty as one never set.
C8_GetOfEmptySlotThrows ==
    /\ \A i \in Indices :
          m_stored_values[i] = nullopt =>
             /\ get_INDEX(m_stored_values, i).outcome = "runtime_error"
             /\ get_index(m_stored_values, PARAMETERS(i), i).outcome = "runtime_error"
             /\ \A name \in LookupNames :
                   GetNameTarget(PARAMETERS(i), name) = i =>
                      get_name(m_parameter_name_hashes, m_stored_values,
                               PARAMETERS(i), name).outcome = "runtime_error"
    /\ \A i \in Indices, name \in LookupNames :
          m_parameter_name_hashes[i] = std_hash(name) =>
             GetNameTarget(PARAMETERS(i), name) \in 0 .. i
    /\ (last.op = "get" /\ last.target \in Indices
           /\ last.before[last.target] = nullopt) =>
          last.outcome = "runtime_error" /\ last.result = nullopt

\* get by name found its slot empty while another slot holds a value.
C8_Witness ==
    /\ last.op = "get" /\ last.mode = "name" /\ last.outcome = "runtime_error"
    /\ \E j \in Indices : m_stored_values[j] # nullopt

\* C9: set(index, v) and get<T>(index) with index >= N fail with
\* std::out_of_range whatever the type of v or T and whatever the slots
\* hold: the bound is checked before the type and before the presence.
C9_IndexOutOfRange ==
    /\ (last.op \in {"set", "get"} /\ last.mode = "index"
           /\ last.index >= n_parameters) =>
          /\ last.outcome = "out_of_range"
          /\ m_stored_values = last.before
    /\ \A T \in GetTypes :
          get_index(m_stored_values, T, n_parameters).outcome = "out_of_range"
    /\ (last.op \in {"set", "get"} /\ last.mode = "index"
           /\ last.outcome = "out_of_range") => last.index >= n_parameters

\* set(N, v) was called with a string while a slot holds a value.
C9_Witness ==
    /\ last.op = "set" /\ last.mode = "index" /\ last.index = n_parameters
    /\ last.value.t = "string" /\ last.outcome = "out_of_range"
    /\ \E j \in Indices : m_stored_values[j] # nullopt

\* C10: is_set(index) with index >= N fails with std::out_of_range, as
\* set(index, v) and get<T>(index) do.
C10_IsSetIndexOutOfRange ==
    (last.op = "is_set" /\ last.mode = "index" /\ last.index >= n_parameters) =>
        last.outcome = "out_of_range"

\* The slots whose stored name hash is the hash of name.
SlotsNamed(name) == { i \in Indices : m_parameter_name_hashes[i] = std_hash(name) }

\* The least element of a non-empty set of indices.
Lowest(S) == CHOOSE i \in S : \A j \in S : i <= j

\* C11: set, get and is_set with a name whose hash is the name hash of no
\* slot fail with std::invalid_argument, whatever the slots hold and whatever
\* the value or the requested type.
C11_UnknownNameIsInvalidArgument ==
    /\ (last.mode = "name" /\ SlotsNamed(last.name) = {}) =>
          /\ last.outcome = "invalid_argument"
          /\ m_stored_values = last.before
    /\ \A name \in LookupNames :
          SlotsNamed(name) = {} =>
             /\ is_set_name(m_parameter_name_hashes, m_stored_values, name).outcome
                   = "invalid_argument"
             /\ \A T \in GetTypes :
                   get_name(m_parameter_name_hashes, m_stored_values, T, name).outcome
                      = "invalid_argument"
             /\ \A value \in Values :
                   set_name_target(m_parameter_name_hashes, name, value) = NotFound

\* get<T> was called with a name no slot has while a slot holds a value.
C11_Witness ==
    /\ last.op = "get" /\ last.name = "not_a_param"
    /\ last.outcome = "invalid_argument"
    /\ \E j \in Indices : m_stored_values[j] # nullopt

\* C12: get<T>(name) and get<T>(index) succeed only when T, without const
\* and reference, is exactly the declared base type of the slot that is
\* read.  When the in-range index, or every slot that has the name, is of
\* another type, even a convertible one, get fails with
\* std::invalid_argument whether the slot is empty or occupied.
C12_GetNeedsExactType ==
    /\ (last.op = "get" /\ last.outcome \in {"ok", "runtime_error"}) =>
          /\ last.target \in Indices
          /\ RemoveCvRef(last.type) = BaseTypeAt(last.target)
          /\ last.mode = "index" => last.target = last.index
          /\ last.mode = "name" => last.target \in SlotsNamed(last.name)
    /\ (last.op = "get" /\ last.mode = "index" /\ last.index \in Indices
           /\ RemoveCvRef(last.type) # BaseTypeAt(last.index)) =>
          last.outcome = "invalid_argument"
    /\ (last.op = "get" /\ last.mode = "name"
           /\ \A i \in SlotsNamed(last.name) :
                 RemoveCvRef(last.type) # BaseTypeAt(i)) =>
          last.outcome = "invalid_argument"
    /\ \A i \in Indices, T \in GetTypes :
          RemoveCvRef(T) # BaseTypeAt(i) =>
             get_index(m_stored_values, T, i).outcome = "invalid_argument"

\* get<const int&>(1) was called on the occupied bool slot.
C12_Witness ==
    /\ last.op = "get" /\ last.mode = "index" /\ last.index = 1
    /\ last.type = "const int&" /\ last.before[1] # nullopt
    /\ last.outcome = "invalid_argument"

\* C13: set(index, v) with an in-range index succeeds exactly when the type
\* of v is convertible to the declared base type of that slot, and
\* set(name, v) with a name some slot has succeeds exactly when it is
\* convertible to the type of one of the slots with that name; the slot
\* written then holds v converted to its type, and otherwise the call fails
\* with std::invalid_argument.
C13_SetNeedsConvertibleType ==
    /\ (last.op = "set" /\ last.mode = "index" /\ last.index \in Indices) =>
          IF is_convertible(last.value.t, BaseTypeAt(last.index))
          THEN /\ last.outcome = "ok"
               /\ m_stored_values[last.index]
                     = ConvertTo(last.value, BaseTypeAt(last.index))
               /\ m_stored_values[last.index].t = BaseTypeAt(last.index)
          ELSE /\ last.outcome = "invalid_argument"
               /\ m_stored_values = last.before
    /\ (last.op = "set" /\ last.mode = "name" /\ SlotsNamed(last.name) # {}) =>
          IF \E i \in SlotsNamed(last.name) :
                is_convertible(last.value.t, BaseTypeAt(i))
          THEN /\ last.outcome = "ok"
               /\ last.target \in SlotsNamed(last.name)
               /\ m_stored_values[last.target]
                     = ConvertTo(last.value, BaseTypeAt(last.target))
               /\ m_stored_values[last.target].t = BaseTypeAt(last.target)
          ELSE /\ last.outcome = "invalid_argument"
               /\ m_stored_values = last.before
    /\ (last.op = "set" /\ last.outcome = "ok" /\ last.value = [t |-> "int", v |-> "0"]
           /\ BaseTypeAt(last.target) = "bool") =>
          m_stored_values[last.target] = [t |-> "bool", v |-> "false"]
    /\ (last.op = "set" /\ last.outcome = "ok" /\ last.value.t = "cstr"
           /\ BaseTypeAt(last.target) = "string") =>
          m_stored_values[last.target] = [t |-> "string", v |-> last.value.v]

\* set(1, 0) stored false in the bool slot.
C13_Witness ==
    /\ last.op = "set" /\ last.mode = "index" /\ last.index = 1
    /\ last.value = [t |-> "int", v |-> "0"] /\ last.outcome = "ok"
    /\ m_stored_values[1] = [t |-> "bool", v |-> "false"]

\* C14 as claimed: when slots share a name, every by-name set, get and
\* is_set with that name resolves to the lowest-index slot that has the name.
C14_LowestSlotWithTheName ==
    (last.mode = "name" /\ last.target # NotFound) =>
        last.target = Lowest(SlotsNamed(last.name))

\* The slots a by-name call may resolve to: those that have the name and
\* whose type passes the type predicate of the operation.
Candidates(op, name, type) ==
    { i \in SlotsNamed(name) :
         CASE op = "set" -> is_convertible(RemoveCvRef(type), BaseTypeAt(i))
           [] op = "get" -> RemoveCvRef(type) = BaseTypeAt(i)
           [] OTHER      -> TRUE }

\* C14 as amended: when slots share a name, a by-name set, get or is_set
\* with that name resolves to the lowest-index slot that has the name and
\* whose declared type passes the operation's type predicate (convertible
\* from the value for set, exactly T for get, any type for is_set); no
\* other slot is read or written through the name.
C14_LowestMatchingSlot ==
    last.mode = "name" =>
        IF Candidates(last.op, last.name, last.type) = {}
        THEN last.target = NotFound /\ last.outcome = "invalid_argument"
        ELSE LET i == Lowest(Candidates(last.op, last.name, last.type))
             IN  /\ last.target = i
                 /\ \A j \in Indices \ {i} : m_stored_values[j] = last.before[j]
                 /\ last.op = "get" /\ last.outcome = "ok" => last.result = last.before[i]
                 /\ last.op = "is_set" =>
                       last.result = Bool(last.before[i] # nullopt)

\* Two slots have the name and both accept the value: the set went to the
\* lower one.
C14_Witness ==
    /\ last.op = "set" /\ last.mode = "name" /\ last.outcome = "ok"
    /\ last.target = 0
    /\ 1 \in Candidates("set", last.name, last.type)

\* C15: is_set(name) reports the lowest-index slot that has the name,
\* whatever its type, while set(name, v) and get<T>(name) act on the
\* lowest-index slot that has the name and passes their type predicate; so
\* the two can address different slots when a name is shared.  When all
\* names are distinct, a successful set(name, v) makes is_set(name) true.
C15_IsSetIgnoresType ==
    /\ \A name \in LookupNames :
          LET r == is_set_name(m_parameter_name_hashes, m_stored_values, name)
          IN  IF SlotsNamed(name) = {}
              THEN r.outcome = "invalid_argument"
              ELSE /\ r.outcome = "ok"
                   /\ r.target = Lowest(SlotsNamed(name))
                   /\ r.result = Bool(m_stored_values[Lowest(SlotsNamed(name))] # nullopt)
    /\ (last.op \in {"set", "get"} /\ last.mode = "name" /\ last.target # NotFound) =>
          /\ last.target \in Candidates(last.op, last.name, last.type)
          /\ \A j \in Candidates(last.op, last.name, last.type) : last.target <= j
    /\ (last.op = "set" /\ last.mode = "name" /\ last.outcome = "ok"
           /\ \A i, j \in Indices :
                 m_parameter_name_hashes[i] = m_parameter_name_hashes[j] => i = j) =>
          is_set_name(m_parameter_name_hashes, m_stored_values, last.name)
             = [outcome |-> "ok", target |-> last.target, result |-> Bool(TRUE)]

\* A set by a shared name wrote a higher slot, and is_set with the same name
\* still reports the empty lower slot.
C15_Witness ==
    /\ last.op = "set" /\ last.mode = "name" /\ last.outcome = "ok"
    /\ last.target # Lowest(SlotsNamed(last.name))
    /\ is_set_name(m_parameter_name_hashes, m_stored_values, last.name).result
          = Bool(FALSE)

\* C16: an operation that fails leaves the stored values as they were:
\* set, get and is_set failing with std::out_of_range or
\* std::invalid_argument, get and submit failing with std::runtime_error,
\* and submit failing with the error of the invoked function.
C16_FailureLeavesMapUnchanged ==
    /\ last.outcome # "ok" => m_stored_values = last.before
    /\ last.outcome \in {"out_of_range", "invalid_argument"}
          => last.op \in {"set", "get", "is_set"}
    /\ last.outcome = "runtime_error" => last.op \in {"get", "submit"}

\* A set failed on a map that holds a value.
C16_Witness ==
    /\ last.op = "set" /\ last.outcome = "invalid_argument"
    /\ \E j \in Indices : m_stored_values[j] # nullopt

\* C17: a successful set, by name, by run-time index or by compile-time
\* index, changes only the slot it resolved to; every other slot and the
\* name hashes are what they were before the call.
C17_SetChangesOneSlot ==
    [][(last'.op = "set" /\ last'.outcome = "ok") =>
          /\ last'.target \in Indices
          /\ last'.before = m_stored_values
          /\ m_parameter_name_hashes' = m_parameter_name_hashes
          /\ \A j \in Indices \ {last'.target} :
                m_stored_values'[j] = m_stored_values[j]
          /\ m_stored_values'[last'.target]
                = ConvertTo(last'.value, BaseTypeAt(last'.target))]_vars

\* A set changed its slot while another slot held a value.
C17_Witness ==
    /\ last.op = "set" /\ last.outcome = "ok"
    /\ m_stored_values[last.target] # last.before[last.target]
    /\ \E j \in Indices \ {last.target} : m_stored_values[j] # nullopt

\* C18: sets of distinct slots commute: after set(i, a), a further set(j, b)
\* with j # i gives the state that set(j, b) followed by set(i, a) gives
\* from the state before; so every order of setting all slots ends in the
\* same fully populated state, on which submit passes the same arguments.
C18_SetsCommute ==
    (last.op = "set" /\ last.outcome = "ok") =>
        \A j \in Indices \ {last.target} :
           \A b \in { v \in Values : is_convertible(v.t, BaseTypeAt(j)) } :
              LET ij == set_INDEX(m_stored_values, j, b)
                  ji == set_INDEX(set_INDEX(last.before, j, b),
                                  last.target, last.value)
              IN  /\ ij = ji
                  /\ ij[j] = ConvertTo(b, BaseTypeAt(j))
                  /\ ij[last.target] = m_stored_values[last.target]
                  /\ submit(ij, "testfunc") = submit(ji, "testfunc")
                  /\ AllSet(ij) => submit(ij, "testfunc").invocations
                                      = <<[I \in 1 .. n_parameters |-> ij[I - 1]]>>

\* The map became full by a set of slot 0, after the other slots.
C18_Witness ==
    /\ last.op = "set" /\ last.outcome = "ok" /\ last.target = 0
    /\ last.before[0] = nullopt
    /\ AllSet(m_stored_values)

\* C19: only hashes are compared: a name that was not given to the
\* constructor but hashes to the stored hash of a slot is resolved by set,
\* get and is_set exactly as the declared name with that hash.
C19_HashOnlyComparison ==
    /\ \A i \in Indices :
          (m_parameter_name_hashes[i] = std_hash("Alias0")
             /\ \A k \in 0 .. i - 1 :
                   m_parameter_name_hashes[k] # std_hash("Alias0")) =>
             /\ is_set_name(m_parameter_name_hashes, m_stored_values, "Alias0")
                   = [outcome |-> "ok", target |-> i,
                      result |-> Bool(m_stored_values[i] # nullopt)]
             /\ \A value \in Values :
                   is_convertible(value.t, BaseTypeAt(i)) =>
                      set_name_target(m_parameter_name_hashes, "Alias0", value) = i
             /\ \A T \in GetTypes :
                   RemoveCvRef(T) = BaseTypeAt(i) =>
                      get_name(m_parameter_name_hashes, m_stored_values, T, "Alias0").target = i
    /\ (last.mode = "name" /\ last.name = "Alias0") =>
          /\ last.op = "set" =>
                /\ last.target = set_name_target(m_parameter_name_hashes, "Param0", last.value)
                /\ last.target # NotFound =>
                      m_stored_values = set_INDEX(last.before, last.target, last.value)
          /\ last.op = "get" =>
                LET r == get_name(m_parameter_name_hashes, last.before, last.type, "Param0")
                IN  /\ last.outcome = r.outcome
                    /\ last.target = r.target
                    /\ last.result = r.result
          /\ last.op = "is_set" =>
                LET r == is_set_name(m_parameter_name_hashes, last.before, "Param0")
                IN  /\ last.outcome = r.outcome
                    /\ last.target = r.target
                    /\ last.result = r.result

\* A value was stored in slot 0 through the undeclared name.
C19_Witness ==
    /\ last.op = "set" /\ last.name = "Alias0" /\ last.outcome = "ok"
    /\ last.target = 0
    /\ m_stored_values[0] = ConvertTo(last.value, BaseTypeAt(0))

\* C20: when the function that submit invokes on a fully populated map
\* fails, the caller gets that failure and not one of the map's own errors,
\* the function was invoked once, the map is still fully populated with the
\* same values, and a later submit of a function that returns succeeds.
C20_CalleeFailurePropagates ==
    (last.op = "submit" /\ last.function = "thrower" /\ AllSet(last.before)) =>
        /\ last.outcome = "callee_error"
        /\ Len(last.invocations) = 1
        /\ m_stored_values = last.before
        /\ AllSet(m_stored_values)
        /\ submit(m_stored_values, "testfunc").outcome = "ok"
        /\ submit(m_stored_values, "testfunc").invocations = last.invocations

\* submit of the failing function on a full map.
C20_Witness ==
    /\ last.op = "submit" /\ last.function = "thrower"
    /\ last.outcome = "callee_error"
    /\ AllSet(m_stored_values)

===========================================================================
